---- MODULE Spec2Model ----
(***************************************************************************)
(* A model of conversor_windows.py: the file queue of App, convert_all,    *)
(* merge_pdfs_now and the conversion adapters, over a small file system.   *)
(*                                                                         *)
(* A string is a sequence of one-character strings, a path is a sequence   *)
(* of names (the root is the empty path), and the file system is a         *)
(* function from the paths that exist to their nodes.                      *)
(***************************************************************************)
EXTENDS Integers, Sequences, FiniteSets, TLC

VARIABLES
    files,        \* App.files: the queue, a list of path strings
    listbox,      \* the rows of App.listbox
    fs,           \* the file system: path -> node
    HAS_PYMUPDF,  \* module flag set at import
    HAS_PYPDF,    \* module flag set at import
    pc,           \* "idle", or "convert" while convert_all's loop runs
    opts,         \* the options convert_all read when it started
    work,         \* list(self.files), the snapshot the loop iterates
    idx,          \* position of the loop in work
    ok_count,     \* convert_all's ok_count
    fail_count,   \* convert_all's fail_count
    outcome,      \* how the last handler ended: convert_all "running", "done" or
                  \* "aborted" (an exception left it); merge_pdfs_now "few",
                  \* "merged", "merge_failed" or "merge_aborted"; "none" before
    log,          \* one record per queue entry the running (or last) convert_all visited
    runs,         \* number of convert_all / merge_pdfs_now invocations so far
    existed,      \* the queue entries whose file existed when convert_all started
    hist          \* history of the queue: the insertions made, the edits counted,
                  \* the last handler called

\* the state of the program and of the file system; hist only records
progVars == <<files, listbox, fs, HAS_PYMUPDF, HAS_PYPDF, pc, opts, work, idx,
              ok_count, fail_count, outcome, log, runs, existed>>
vars == <<progVars, hist>>

-----------------------------------------------------------------------------
(* Bounds of the model *)

MaxQueue == 2
MaxRuns == 1
NPages == 2
MaxEdits == 3

-----------------------------------------------------------------------------
(* Strings *)

UpperChars == <<"A","B","C","D","E","F","G","H","I","J","K","L","M",
                "N","O","P","Q","R","S","T","U","V","W","X","Y","Z">>
LowerChars == <<"a","b","c","d","e","f","g","h","i","j","k","l","m",
                "n","o","p","q","r","s","t","u","v","w","x","y","z">>

Range(q) == {q[i] : i \in 1..Len(q)}
SetMin(S) == CHOOSE x \in S : \A y \in S : x <= y
SetMax(S) == CHOOSE x \in S : \A y \in S : x >= y

lower_char(c) ==
    IF \E i \in 1..26 : UpperChars[i] = c
    THEN LowerChars[CHOOSE i \in 1..26 : UpperChars[i] = c]
    ELSE c

\* str.lower()
lower(s) == [i \in 1..Len(s) |-> lower_char(s[i])]

\* str.strip(): leading and trailing blanks removed
strip(s) ==
    LET keep == {i \in 1..Len(s) : s[i] # " "}
    IN IF keep = {} THEN <<>> ELSE SubSeq(s, SetMin(keep), SetMax(keep))

\* str.endswith(suf)
endswith(s, suf) ==
    /\ Len(suf) <= Len(s)
    /\ SubSeq(s, Len(s) - Len(suf) + 1, Len(s)) = suf

BadChars == {"\\", "/", ":", "*", "?", "\"", "<", ">", "|"}
Arquivo == <<"a","r","q","u","i","v","o">>

\* sanitize_basename(name)
sanitize_basename(name) ==
    LET replaced == [i \in 1..Len(name) |->
                        IF name[i] \in BadChars THEN "_" ELSE name[i]]
        stripped == strip(replaced)
    IN IF stripped # <<>> THEN stripped ELSE Arquivo

\* position of the dot that starts the suffix of a file name, 0 when it has none
\* (pathlib: the last dot, unless it is the first or the last character)
SuffixDot(name) ==
    LET dots == {i \in 1..Len(name) : name[i] = "."}
    IN IF dots = {} THEN 0
       ELSE LET i == SetMax(dots)
            IN IF 1 < i /\ i < Len(name) THEN i ELSE 0

\* PurePath.suffix and PurePath.stem of a file name
NameSuffix(name) ==
    IF SuffixDot(name) = 0 THEN <<>> ELSE SubSeq(name, SuffixDot(name), Len(name))
NameStem(name) ==
    IF SuffixDot(name) = 0 THEN name ELSE SubSeq(name, 1, SuffixDot(name) - 1)

\* decimal digits of a natural number
RECURSIVE Digits(_)
Digits(n) ==
    LET d == <<"0","1","2","3","4","5","6","7","8","9">>[(n % 10) + 1]
    IN IF n < 10 THEN <<d>> ELSE Append(Digits(n \div 10), d)

\* f"{i:03d}"
Pad3(i) ==
    LET ds == Digits(i)
    IN [k \in 1..(IF Len(ds) < 3 THEN 3 - Len(ds) ELSE 0) |-> "0"] \o ds

-----------------------------------------------------------------------------
(* Program constants *)

S_pdf == <<"p","d","f">>
S_jpg == <<"j","p","g">>
S_png == <<"p","n","g">>
S_webp == <<"w","e","b","p">>
S_tiff == <<"t","i","f","f">>
S_bmp == <<"b","m","p">>
S_txt == <<"t","x","t">>

OUTPUT_FORMATS == {S_pdf, S_jpg, S_png, S_webp, S_tiff, S_bmp, S_txt}

OFFICE_EXTS ==
    { <<".","d","o","c">>, <<".","d","o","c","x">>, <<".","o","d","t">>,
      <<".","r","t","f">>, <<".","t","x","t">>,
      <<".","x","l","s">>, <<".","x","l","s","x">>, <<".","o","d","s">>,
      <<".","c","s","v">>,
      <<".","p","p","t">>, <<".","p","p","t","x">>, <<".","o","d","p">> }

IMAGE_EXTS ==
    { <<".","j","p","g">>, <<".","j","p","e","g">>, <<".","p","n","g">>,
      <<".","w","e","b","p">>, <<".","t","i","f">>, <<".","t","i","f","f">>,
      <<".","b","m","p">>, <<".","g","i","f">>, <<".","h","e","i","c">>,
      <<".","h","e","i","f">> }

DotPdf == <<".","p","d","f">>
DotPDF == <<".","P","D","F">>
RasterFormats == {S_jpg, S_png, S_webp, S_tiff, S_bmp}

-----------------------------------------------------------------------------
(* Paths and the file system *)

PathName(p) == p[Len(p)]
PathParent(p) == SubSeq(p, 1, Len(p) - 1)
PathSuffix(p) == IF p = <<>> THEN <<>> ELSE NameSuffix(PathName(p))
PathStem(p) == IF p = <<>> THEN <<>> ELSE NameStem(PathName(p))

DirNode == [kind |-> "dir", type |-> "dir", pages |-> <<>>]
FileNode(t, pg) == [kind |-> "file", type |-> t, pages |-> pg]

\* Path.exists(); the root always exists
PathExists(f, p) == p = <<>> \/ p \in DOMAIN f
IsDir(f, p) == p = <<>> \/ (p \in DOMAIN f /\ f[p].kind = "dir")
IsFile(f, p) == p \in DOMAIN f /\ f[p].kind = "file"

Put(f, p, node) == [q \in DOMAIN f \cup {p} |-> IF q = p THEN node ELSE f[q]]
Drop(f, p) == [q \in DOMAIN f \ {p} |-> f[q]]

Prefixes(p) == {SubSeq(p, 1, k) : k \in 1..Len(p)}

Raised(f) == [ok |-> FALSE, fs |-> f]
Done(f) == [ok |-> TRUE, fs |-> f]

\* safe_mkdir(p): p.mkdir(parents=True, exist_ok=True); raises when p or one of
\* its parents exists and is not a directory
safe_mkdir(f, p) ==
    IF \E q \in Prefixes(p) : IsFile(f, q)
    THEN Raised(f)
    ELSE Done([q \in DOMAIN f \cup Prefixes(p) |->
                  IF q \in DOMAIN f THEN f[q] ELSE DirNode])

\* open(p, "w") raises when p is a directory or its parent is none
CanWrite(f, p) == ~IsDir(f, p) /\ IsDir(f, PathParent(p))

\* open(p, "w") and write
WriteFile(f, p, node) == IF CanWrite(f, p) THEN Done(Put(f, p, node)) ELSE Raised(f)

\* Path.unlink(): raises unless p is a file
Unlink(f, p) == IF IsFile(f, p) THEN Done(Drop(f, p)) ELSE Raised(f)

\* q is src or lies under it
IsUnder(q, src) == Len(q) >= Len(src) /\ SubSeq(q, 1, Len(src)) = src

\* Path.rename(target): the entry src (a folder with all under it) moves to
\* dst, replacing a file there; raises when src is missing, dst is a folder,
\* dst's parent is no folder, or src is a folder and dst exists
Rename(f, src, dst) ==
    IF \/ ~PathExists(f, src) \/ src = <<>>
       \/ IsDir(f, dst)
       \/ ~IsDir(f, PathParent(dst))
       \/ (IsDir(f, src) /\ PathExists(f, dst))
    THEN Raised(f)
    ELSE IF src = dst THEN Done(f)
    ELSE Done([q \in {r \in DOMAIN f : ~IsUnder(r, src)}
                        \cup {dst \o SubSeq(r, Len(src) + 1, Len(r)) :
                                 r \in {x \in DOMAIN f : IsUnder(x, src)}} |->
                  IF IsUnder(q, dst)
                  THEN f[src \o SubSeq(q, Len(dst) + 1, Len(q))]
                  ELSE f[q]])

\* list(out_dir.glob(pattern)) for a pattern without wildcards: the entry of
\* that name, if any
Glob(f, dir, pattern) ==
    IF Append(dir, pattern) \in DOMAIN f THEN << Append(dir, pattern) >> ELSE <<>>

\* the entries directly inside a directory
Children(f, dir) == {p \in DOMAIN f : PathParent(p) = dir}

-----------------------------------------------------------------------------------------------------------------------------------------------------
(* The adapters.  Each returns [ok, fs]: whether it returned normally (ok) *)
(* or raised, and the file system it leaves.                               *)

\* sequencing: r's exception propagates, otherwise G goes on from r's file system
Then(r, G(_)) == IF r.ok THEN G(r.fs) ELSE r

\* Image.open(p): raises unless p is a readable image file
CanOpenImage(f, p) == IsFile(f, p) /\ f[p].type = "img"
\* fitz.open(p): raises unless p is a readable PDF file
CanOpenPdf(f, p) == IsFile(f, p) /\ f[p].type = "pdf"

\* convert_image_file(in_path, out_path, fmt, quality)
convert_image_file(f, in_path, out_path, fmt) ==
    Then(safe_mkdir(f, PathParent(out_path)),
         LAMBDA g : IF ~CanOpenImage(g, in_path) \/ fmt \notin RasterFormats
                    THEN Raised(g)
                    ELSE WriteFile(g, out_path, FileNode("img", <<>>)))

\* image_to_pdf(in_path, out_path): one page holding the image
image_to_pdf(f, in_path, out_path) ==
    Then(safe_mkdir(f, PathParent(out_path)),
         LAMBDA g : IF ~CanOpenImage(g, in_path)
                    THEN Raised(g)
                    ELSE WriteFile(g, out_path, FileNode("pdf", << <<in_path, 1>> >>)))

\* pdf_to_text_pymupdf(pdf_path, out_txt)
pdf_to_text_pymupdf(f, pdf_path, out_txt) ==
    IF ~HAS_PYMUPDF THEN Raised(f)
    ELSE Then(safe_mkdir(f, PathParent(out_txt)),
              LAMBDA g : IF ~CanOpenPdf(g, pdf_path)
                         THEN Raised(g)
                         ELSE WriteFile(g, out_txt, FileNode("text", <<>>)))

\* f"{prefix}-{i:03d}.{fmt}"
PageName(prefix, i, fmt) == prefix \o <<"-">> \o Pad3(i) \o <<".">> \o fmt

\* variant: the temporary png is never removed
UnlinkQuietly_Kept(f, p) == Done(f)

\* tmp.unlink() inside try/except: a failure is passed over
UnlinkQuietly(f, p) == Done(Unlink(f, p).fs)

\* the body of the page loop of pdf_to_images_pymupdf, for page i: the page is
\* saved as PNG, and for another format converted and the PNG removed
RasterPage(f, out_dir, fmt, prefix, i) ==
    Then(WriteFile(f, Append(out_dir, PageName(prefix, i, S_png)), FileNode("img", <<>>)),
         LAMBDA g :
            IF fmt = S_png THEN Done(g)
            ELSE Then(convert_image_file(g, Append(out_dir, PageName(prefix, i, S_png)),
                                         Append(out_dir, PageName(prefix, i, fmt)), fmt),
                      LAMBDA h : UnlinkQuietly(h, Append(out_dir, PageName(prefix, i, S_png)))))

\* the page loop of pdf_to_images_pymupdf from page i to page n
RECURSIVE RasterLoop(_, _, _, _, _, _)
RasterLoop(f, out_dir, fmt, prefix, i, n) ==
    IF i > n THEN Done(f)
    ELSE Then(RasterPage(f, out_dir, fmt, prefix, i),
              LAMBDA g : RasterLoop(g, out_dir, fmt, prefix, i + 1, n))

\* pdf_to_images_pymupdf(pdf_path, out_dir, fmt, dpi, quality, prefix)
pdf_to_images_pymupdf(f, pdf_path, out_dir, fmt, prefix) ==
    IF ~HAS_PYMUPDF THEN Raised(f)
    ELSE Then(safe_mkdir(f, out_dir),
              LAMBDA g : IF ~CanOpenPdf(g, pdf_path)
                         THEN Raised(g)
                         ELSE RasterLoop(g, out_dir, fmt, prefix, 1,
                                         Len(g[pdf_path].pages)))

\* shutil.copy2(src, dst): into dst when dst is a directory; raises when src
\* and dst are the same file or src is no file
CopyTarget(f, src, dst) == IF IsDir(f, dst) THEN Append(dst, PathName(src)) ELSE dst
copy2(f, src, dst) ==
    IF ~IsFile(f, src) \/ CopyTarget(f, src, dst) = src THEN Raised(f)
    ELSE WriteFile(f, CopyTarget(f, src, dst), f[src])

\* What the environment does with one call of office_to_pdf: whether
\* which_or_none finds an executable, whether the process exits with status
\* zero, and the name under which it leaves a PDF ("exact": stem.pdf,
\* "upper": stem.PDF, "none": no file).
OfficeEnvs ==
    { [found |-> FALSE, exit0 |-> FALSE, made |-> "none"],
      [found |-> TRUE, exit0 |-> FALSE, made |-> "none"],
      [found |-> TRUE, exit0 |-> TRUE, made |-> "exact"],
      [found |-> TRUE, exit0 |-> TRUE, made |-> "upper"],
      [found |-> TRUE, exit0 |-> TRUE, made |-> "none"] }

NoPath == << <<>> >>

\* the file the office process writes, if it writes one
OfficeOutput(in_path, out_dir, env) ==
    Append(out_dir, PathStem(in_path) \o (IF env.made = "upper" THEN DotPDF ELSE DotPdf))

\* run_cmd(cmd) for the office command line: whether the process leaves a PDF
OfficeWrites(f, in_path, out_dir, env) ==
    /\ env.exit0
    /\ env.made # "none"
    /\ IsFile(f, in_path)
    /\ CanWrite(f, OfficeOutput(in_path, out_dir, env))

\* ... and the file system it leaves
OfficeProcess(f, in_path, out_dir, env) ==
    IF OfficeWrites(f, in_path, out_dir, env)
    THEN Put(f, OfficeOutput(in_path, out_dir, env), FileNode("pdf", << <<in_path, 1>> >>))
    ELSE f

OfficeResult(okay, f, path, ran, wrote) ==
    [ok |-> okay, fs |-> f, path |-> path, ran |-> ran, wrote |-> wrote]

\* lines 133-141 of office_to_pdf, g the file system after the process; cands
\* is the list of line 137
OfficeFind(g, in_path, out_dir, env, wrote, cands) ==
    IF ~env.exit0 THEN OfficeResult(FALSE, g, NoPath, TRUE, wrote)
    ELSE IF PathExists(g, Append(out_dir, PathStem(in_path) \o DotPdf))
    THEN OfficeResult(TRUE, g, Append(out_dir, PathStem(in_path) \o DotPdf), TRUE, wrote)
    ELSE IF cands # <<>> THEN OfficeResult(TRUE, g, cands[1], TRUE, wrote)
    ELSE OfficeResult(FALSE, g, NoPath, TRUE, wrote)

\* office_to_pdf from safe_mkdir on, mk its result
OfficeRun(mk, in_path, out_dir, env) ==
    IF ~mk.ok THEN OfficeResult(FALSE, mk.fs, NoPath, FALSE, FALSE)
    ELSE OfficeFind(OfficeProcess(mk.fs, in_path, out_dir, env), in_path, out_dir, env,
                    OfficeWrites(mk.fs, in_path, out_dir, env),
                    Glob(OfficeProcess(mk.fs, in_path, out_dir, env), out_dir,
                         PathStem(in_path) \o DotPdf)
                    \o Glob(OfficeProcess(mk.fs, in_path, out_dir, env), out_dir,
                            PathStem(in_path) \o DotPDF))

\* office_to_pdf(in_path, out_dir, log_cb): [ok, fs, path, ran, wrote], path the
\* value returned, ran whether the process was started, wrote whether that
\* process left a PDF
office_to_pdf(f, in_path, out_dir, env) ==
    IF ~env.found THEN OfficeResult(FALSE, f, NoPath, FALSE, FALSE)
    ELSE OfficeRun(safe_mkdir(f, out_dir), in_path, out_dir, env)

\* produced.rename(out_pdf) of line 434 after the unlink, un its result: when
\* either raises, the except branch leaves things as they are
RenameAfter(un, produced, out_pdf) ==
    IF ~un.ok THEN un.fs
    ELSE IF Rename(un.fs, produced, out_pdf).ok
    THEN Rename(un.fs, produced, out_pdf).fs
    ELSE un.fs

\* variant: the produced PDF is left where the converter wrote it
RenameProduced_Never(f, produced, out_pdf) == f

\* lines 430-437 of convert_all: move the produced PDF to out_pdf if possible
RenameProduced(f, produced, out_pdf) ==
    IF produced # out_pdf /\ PathExists(f, produced)
    THEN RenameAfter(IF PathExists(f, out_pdf) THEN Unlink(f, out_pdf) ELSE Done(f),
                     produced, out_pdf)
    ELSE f

\* the pages PdfWriter holds after appending the files of paths in order
RECURSIVE ConcatPages(_, _)
ConcatPages(f, paths) ==
    IF paths = <<>> THEN <<>>
    ELSE f[Head(paths)].pages \o ConcatPages(f, Tail(paths))

\* variant: the files are appended last to first
merge_pdfs_Reversed(f, pdf_paths, out_pdf) ==
    IF ~HAS_PYPDF THEN Raised(f)
    ELSE IF \E i \in 1..Len(pdf_paths) : ~CanOpenPdf(f, pdf_paths[i]) THEN Raised(f)
    ELSE Then(safe_mkdir(f, PathParent(out_pdf)),
              LAMBDA g : WriteFile(g, out_pdf,
                  FileNode("pdf", ConcatPages(f, [i \in 1..Len(pdf_paths) |->
                                      pdf_paths[Len(pdf_paths) + 1 - i]]))))

\* merge_pdfs(pdf_paths, out_pdf, log_cb)
merge_pdfs(f, pdf_paths, out_pdf) ==
    IF ~HAS_PYPDF THEN Raised(f)
    ELSE IF \E i \in 1..Len(pdf_paths) : ~CanOpenPdf(f, pdf_paths[i]) THEN Raised(f)
    ELSE Then(safe_mkdir(f, PathParent(out_pdf)),
              LAMBDA g : WriteFile(g, out_pdf, FileNode("pdf", ConcatPages(f, pdf_paths))))

-----------------------------------------------------------------------------
(* convert_all, one queue entry at a time *)

\* variant: for pdf output every input that is no PDF and no image goes to
\* the office converter
Route_OfficeByDefault(ext, fmt) ==
    IF fmt = S_txt
    THEN (IF ext # DotPdf THEN "none" ELSE "text")
    ELSE IF fmt = S_pdf
    THEN (IF ext = DotPdf THEN "copy"
          ELSE IF ext \in IMAGE_EXTS THEN "image_to_pdf"
          ELSE "office")
    ELSE IF ext = DotPdf
    THEN (IF fmt \notin RasterFormats THEN "none" ELSE "rasterizer")
    ELSE IF ext \in IMAGE_EXTS THEN "image_codec"
    ELSE "none"

\* the branch convert_all takes for an input extension and an output format,
\* named by the adapter it calls ("none": it raises without calling one)
Route(ext, fmt) ==
    IF fmt = S_txt
    THEN (IF ext # DotPdf THEN "none" ELSE "text")
    ELSE IF fmt = S_pdf
    THEN (IF ext = DotPdf THEN "copy"
          ELSE IF ext \in IMAGE_EXTS THEN "image_to_pdf"
          ELSE IF ext \in OFFICE_EXTS THEN "office"
          ELSE "none")
    ELSE IF ext = DotPdf
    THEN (IF fmt \notin RasterFormats THEN "none" ELSE "rasterizer")
    ELSE IF ext \in IMAGE_EXTS THEN "image_codec"
    ELSE "none"

NoOffice == [called |-> FALSE, found |-> FALSE, ran |-> FALSE, exit0 |-> FALSE,
             wrote |-> FALSE, returned |-> NoPath]

\* base_name of line 391
BaseName(in_path) == sanitize_basename(PathStem(in_path))

\* dest_dir of lines 393-397
DestDir(in_path, o) ==
    IF o.subfolder THEN Append(o.out_base, BaseName(in_path)) ELSE o.out_base

\* out_pdf / out_txt / out_img of convert_all
OutPath(in_path, o, fmt) ==
    Append(DestDir(in_path, o), BaseName(in_path) \o <<".">> \o fmt)

JobResult(r, a, f, off) == [res |-> r, adapter |-> a, fs |-> f, office |-> off]

\* a branch that calls adapter a and counts its result r
Outcome(a, r) == JobResult(IF r.ok THEN "ok" ELSE "fail", a, r.fs, NoOffice)

\* what the log keeps of a call of office_to_pdf
OfficeRecord(off, env) ==
    [called |-> TRUE, found |-> env.found, ran |-> off.ran,
     exit0 |-> off.ran /\ env.exit0, wrote |-> off.wrote, returned |-> off.path]

\* lines 427-439: the office branch of convert_all, off the result of office_to_pdf
OfficeBranch(off, in_path, o, env) ==
    IF ~off.ok THEN JobResult("fail", "office", off.fs, OfficeRecord(off, env))
    ELSE JobResult("ok", "office",
                   RenameProduced(off.fs, off.path, OutPath(in_path, o, S_pdf)),
                   OfficeRecord(off, env))

\* the try block of convert_all (lines 400-465) for one input, taking branch a,
\* the destination folder made
Branch(a, f, in_path, o, env) ==
    CASE a = "text" ->
            Outcome(a, pdf_to_text_pymupdf(f, in_path, OutPath(in_path, o, S_txt)))
      [] a = "copy" ->
            Outcome(a, copy2(f, in_path, OutPath(in_path, o, S_pdf)))
      [] a = "image_to_pdf" ->
            Outcome(a, image_to_pdf(f, in_path, OutPath(in_path, o, S_pdf)))
      [] a = "office" ->
            OfficeBranch(office_to_pdf(f, in_path, DestDir(in_path, o), env),
                         in_path, o, env)
      [] a = "rasterizer" ->
            Outcome(a, pdf_to_images_pymupdf(f, in_path, DestDir(in_path, o), o.fmt,
                                             BaseName(in_path)))
      [] a = "image_codec" ->
            Outcome(a, convert_image_file(f, in_path, OutPath(in_path, o, o.fmt), o.fmt))
      [] OTHER -> JobResult("fail", "none", f, NoOffice)

\* ext of line 390 and the branch taken for it
Dispatch(f, in_path, o, env) ==
    Branch(Route(lower(PathSuffix(in_path)), o.fmt), f, in_path, o, env)

\* lines 398-465, mk the result of safe_mkdir(dest_dir), which is outside the
\* try block
JobIn(mk, in_path, o, env) ==
    IF ~mk.ok THEN JobResult("abort", "none", mk.fs, NoOffice)
    ELSE Dispatch(mk.fs, in_path, o, env)

\* variant: the input is not tested for existence
Job_NoMissingCheck(f, in_path, o, env) ==
    JobIn(safe_mkdir(f, DestDir(in_path, o)), in_path, o, env)

\* the body of convert_all's loop (lines 384-465) for one queue entry:
\* "missing" (counted as a failure before anything is made), "abort" (safe_mkdir
\* of the destination raised), "ok" or "fail"
Job(f, in_path, o, env) ==
    IF ~PathExists(f, in_path)
    THEN JobResult("missing", "none", f, NoOffice)
    ELSE JobIn(safe_mkdir(f, DestDir(in_path, o)), in_path, o, env)

LogEntry(in_path, j) ==
    [path |-> in_path, res |-> j.res, adapter |-> j.adapter, office |-> j.office]

\* convert_all from safe_mkdir(out_base) to the loop (lines 378-381)
ConvertBegin(o, mk) ==
    /\ runs' = runs + 1
    /\ opts' = o
    /\ work' = files
    /\ idx' = 1
    /\ ok_count' = 0
    /\ fail_count' = 0
    /\ log' = <<>>
    /\ existed' = {p \in Range(files) : PathExists(fs, p)}
    /\ fs' = mk.fs
    /\ pc' = IF mk.ok THEN "convert" ELSE "idle"
    /\ outcome' = IF mk.ok THEN "running" ELSE "aborted"
    /\ UNCHANGED <<files, listbox, HAS_PYMUPDF, HAS_PYPDF>>

\* convert_all up to the loop (lines 369-381), the widgets holding o
ConvertStart(o) ==
    /\ pc = "idle"
    /\ runs < MaxRuns
    /\ IF files = <<>>
       THEN UNCHANGED progVars
       ELSE ConvertBegin(o, safe_mkdir(fs, o.out_base))

\* the environments that make a difference to the entry the loop is at
EnvChoices(f, in_path, o) ==
    IF PathExists(f, in_path) /\ Route(lower(PathSuffix(in_path)), o.fmt) = "office"
    THEN OfficeEnvs
    ELSE {CHOOSE e \in OfficeEnvs : ~e.found}

\* the effect of one iteration, j the result of its job
StepWith(in_path, j) ==
    /\ fs' = j.fs
    /\ log' = Append(log, LogEntry(in_path, j))
    /\ ok_count' = ok_count + (IF j.res = "ok" THEN 1 ELSE 0)
    /\ fail_count' = fail_count + (IF j.res \in {"fail", "missing"} THEN 1 ELSE 0)
    /\ idx' = IF j.res = "abort" THEN idx ELSE idx + 1
    /\ pc' = IF j.res = "abort" THEN "idle" ELSE "convert"
    /\ outcome' = IF j.res = "abort" THEN "aborted" ELSE outcome

\* one iteration of the loop of convert_all
ConvertStep ==
    /\ pc = "convert"
    /\ idx <= Len(work)
    /\ \E env \in EnvChoices(fs, work[idx], opts) :
          StepWith(work[idx], Job(fs, work[idx], opts, env))
    /\ UNCHANGED <<files, listbox, HAS_PYMUPDF, HAS_PYPDF, opts, work, runs, existed>>

\* the end of convert_all (line 467): the summary dialog
ConvertFinish ==
    /\ pc = "convert"
    /\ idx > Len(work)
    /\ pc' = "idle"
    /\ outcome' = "done"
    /\ UNCHANGED <<files, listbox, fs, HAS_PYMUPDF, HAS_PYPDF, opts, work, idx,
                   ok_count, fail_count, log, runs, existed>>

-----
(* The queue *)

\* variant: a path is appended whether the queue holds it or not
RECURSIVE AddLoop_NoDuplicateCheck(_, _)
AddLoop_NoDuplicateCheck(q, paths) ==
    IF paths = <<>> THEN q
    ELSE LET p == Head(paths)
         IN IF p # <<>>
            THEN AddLoop_NoDuplicateCheck([files |-> Append(q.files, p),
                                           listbox |-> Append(q.listbox, p)],
                                          Tail(paths))
            ELSE AddLoop_NoDuplicateCheck(q, Tail(paths))

\* the loop of _add_paths over paths, on the pair (files, listbox)
RECURSIVE AddLoop(_, _)
AddLoop(q, paths) ==
    IF paths = <<>> THEN q
    ELSE LET p == Head(paths)
         IN IF p # <<>> /\ p \notin Range(q.files)
            THEN AddLoop([files |-> Append(q.files, p),
                          listbox |-> Append(q.listbox, p)], Tail(paths))
            ELSE AddLoop(q, Tail(paths))

\* list.remove(x): the first occurrence goes; ValueError (none) is passed over
RemoveFirst(q, x) ==
    IF x \notin Range(q) THEN q
    ELSE LET i == SetMin({k \in 1..Len(q) : q[k] = x})
         IN SubSeq(q, 1, i - 1) \o SubSeq(q, i + 1, Len(q))

\* Listbox.delete(i), i counted from 1 here
DeleteRow(rows, i) == SubSeq(rows, 1, i - 1) \o SubSeq(rows, i + 1, Len(rows))

\* the loop of remove_selected over the selected rows, highest first
RECURSIVE RemoveLoop(_, _)
RemoveLoop(q, sel) ==
    IF sel = {} THEN q
    ELSE LET i == SetMax(sel)
             path == q.listbox[i]
         IN RemoveLoop([files |-> RemoveFirst(q.files, path),
                        listbox |-> DeleteRow(q.listbox, i)], sel \ {i})

\* _add_paths(paths), called by add_files_multi and add_folder
AddPaths(paths) ==
    /\ pc = "idle"
    /\ LET q == AddLoop([files |-> files, listbox |-> listbox], paths)
       IN /\ Len(q.files) <= MaxQueue
          /\ files' = q.files
          /\ listbox' = q.listbox
    /\ UNCHANGED <<fs, HAS_PYMUPDF, HAS_PYPDF, pc, opts, work, idx,
                   ok_count, fail_count, outcome, log, runs, existed>>

\* remove_selected with the rows sel selected
RemoveSelected(sel) ==
    /\ pc = "idle"
    /\ LET q == RemoveLoop([files |-> files, listbox |-> listbox], sel)
       IN /\ files' = q.files
          /\ listbox' = q.listbox
    /\ UNCHANGED <<fs, HAS_PYMUPDF, HAS_PYPDF, pc, opts, work, idx,
                   ok_count, fail_count, outcome, log, runs, existed>>

\* variant: clear_files empties the queue and leaves the rows of the list
ClearFiles_ListboxKept ==
    /\ pc = "idle"
    /\ files' = <<>>
    /\ UNCHANGED <<listbox, fs, HAS_PYMUPDF, HAS_PYPDF, pc, opts, work, idx,
                   ok_count, fail_count, outcome, log, runs, existed>>

\* clear_files
ClearFiles ==
    /\ pc = "idle"
    /\ files' = <<>>
    /\ listbox' = <<>>
    /\ UNCHANGED <<fs, HAS_PYMUPDF, HAS_PYPDF, pc, opts, work, idx,
                   ok_count, fail_count, outcome, log, runs, existed>>

-----------------------------------------------------------------------------
(* merge_pdfs_now *)

\* the list pdfs of merge_pdfs_now: the queue entries with suffix .pdf that exist
RECURSIVE MergeInputs(_, _)
MergeInputs(f, q) ==
    IF q = <<>> THEN <<>>
    ELSE LET rest == MergeInputs(f, Tail(q))
         IN IF lower(PathSuffix(Head(q))) = DotPdf /\ PathExists(f, Head(q))
            THEN <<Head(q)>> \o rest
            ELSE rest

\* out_pdf of merge_pdfs_now for the name in the entry field
MergeOutPath(out_dir, merge_name) ==
    LET stripped == strip(merge_name)
        name == IF endswith(lower(stripped), DotPdf) THEN stripped
                ELSE stripped \o DotPdf
    IN Append(out_dir, sanitize_basename(NameStem(name)) \o DotPdf)

\* merge_pdfs_now from the test of line 475 on, pdfs the list built before
MergeWith(pdfs, out_dir, merge_name, mk) ==
    IF Len(pdfs) < 2
    THEN fs' = fs /\ outcome' = "few"
    ELSE IF ~mk.ok
    THEN fs' = fs /\ outcome' = "merge_aborted"
    ELSE /\ fs' = merge_pdfs(mk.fs, pdfs, MergeOutPath(out_dir, merge_name)).fs
         /\ outcome' = IF merge_pdfs(mk.fs, pdfs, MergeOutPath(out_dir, merge_name)).ok
                       THEN "merged" ELSE "merge_failed"

\* merge_pdfs_now with the output folder and the name of the entry fields
MergePdfsNow(out_dir, merge_name) ==
    /\ pc = "idle"
    /\ runs < MaxRuns
    /\ runs' = runs + 1
    /\ MergeWith(MergeInputs(fs, files), out_dir, merge_name, safe_mkdir(fs, out_dir))
    /\ UNCHANGED <<files, listbox, HAS_PYMUPDF, HAS_PYPDF, pc, opts, work, idx,
                   ok_count, fail_count, log, existed>>

-----------------------------------------------------------------------------
(* The file system the program starts on, and the inputs of the handlers *)

In == << <<"i","n">> >>
Out == << <<"o","u","t">> >>

F_doc_pdf == Append(In, <<"d","o","c",".","p","d","f">>)
F_doc_001_png == Append(In, <<"d","o","c","-","0","0","1",".","p","n","g">>)
F_b_PDF == Append(In, <<"b",".","P","D","F">>)
F_r_docx == Append(In, <<" ","r",".","d","o","c","x">>)
F_doc_txt == Append(In, <<"d","o","c",".","t","x","t">>)
F_doc == Append(In, <<"d","o","c">>)
F_gone_pdf == Append(In, <<"g","o","n","e",".","p","d","f">>)
D_r_pdf == Append(In, <<"r",".","p","d","f">>)

PagesOf(p, n) == [i \in 1..n |-> <<p, i>>]

FsOf(entries) ==
    [p \in {e[1] : e \in entries} |-> (CHOOSE e \in entries : e[1] = p)[2]]

\* folder in: a PDF of NPages pages, an image named like the first page of its
\* rasterization, a one-page PDF with an upper-case suffix, two office
\* documents, a file without suffix, and a folder named r.pdf
InitFS ==
    FsOf({ <<In, DirNode>>,
           <<F_doc_pdf, FileNode("pdf", PagesOf(F_doc_pdf, NPages))>>,
           <<F_doc_001_png, FileNode("img", <<>>)>>,
           <<F_b_PDF, FileNode("pdf", PagesOf(F_b_PDF, 1))>>,
           <<F_r_docx, FileNode("office", <<>>)>>,
           <<F_doc_txt, FileNode("office", <<>>)>>,
           <<F_doc, FileNode("raw", <<>>)>>,
           <<D_r_pdf, DirNode>> })

\* the paths the pickers hand to _add_paths; gone.pdf is a file that another
\* program removed after it was picked
QueuePaths == {F_doc_pdf, F_doc_001_png, F_b_PDF, F_r_docx, F_doc_txt, F_doc,
               F_gone_pdf}

\* lists of at most two paths, the empty path among them
PathLists(S) ==
    LET T == S \cup {<<>>}
    IN {<<>>} \cup {<<p>> : p \in T} \cup {<<p, q>> : p \in T, q \in T}

\* the defaults of the option widgets (lines 274, 279, 290)
DefaultOptions == [out_base |-> Out, fmt |-> S_pdf, subfolder |-> TRUE]

\* the options convert_all can read from the widgets
Options == [out_base : {In, Out}, fmt : OUTPUT_FORMATS, subfolder : BOOLEAN]

S_pdf_juntado_pdf == <<"p","d","f","_","j","u","n","t","a","d","o",".","p","d","f">>
MergeNames == {S_pdf_juntado_pdf, <<"d","o","c">>}

\* hist is the history of the queue, kept beside the program: events lists
\* every insertion _add_paths made, clock counts the edits of the queue, op and
\* arg are the last handler called and its argument
NoHist == [events |-> <<>>, clock |-> 0, op |-> "init", arg |-> <<>>]

Init ==
    /\ files = <<>>
    /\ listbox = <<>>
    /\ fs = InitFS
    /\ HAS_PYMUPDF \in BOOLEAN
    /\ HAS_PYPDF \in BOOLEAN
    /\ pc = "idle"
    /\ opts = DefaultOptions
    /\ work = <<>>
    /\ idx = 1
    /\ ok_count = 0
    /\ fail_count = 0
    /\ outcome = "none"
    /\ log = <<>>
    /\ runs = 0
    /\ existed = {}
    /\ hist = NoHist

\* The queue is edited while a conversion or a merge is still to come: what
\* the model explores ends with its last run.
Next ==
    \/ \E paths \in PathLists(QueuePaths) :
          runs < MaxRuns /\ AddPaths(paths) /\ UNCHANGED hist
    \/ \E sel \in SUBSET (1..Len(listbox)) :
          runs < MaxRuns /\ RemoveSelected(sel) /\ UNCHANGED hist
    \/ runs < MaxRuns /\ ClearFiles /\ UNCHANGED hist
    \/ \E o \in Options : ConvertStart(o) /\ UNCHANGED hist
    \/ ConvertStep /\ UNCHANGED hist
    \/ ConvertFinish /\ UNCHANGED hist
    \/ \E d \in {In, Out}, n \in MergeNames : MergePdfsNow(d, n) /\ UNCHANGED hist

Spec == Init /\ [][Next]_vars

\* the paths of the list that _add_paths appends when present is what the queue
\* holds: the non-empty ones not held and not earlier in the list
RECURSIVE Inserted(_, _)
Inserted(paths, present) ==
    IF paths = <<>> THEN <<>>
    ELSE IF Head(paths) # <<>> /\ Head(paths) \notin present
    THEN <<Head(paths)>> \o Inserted(Tail(paths), present \cup {Head(paths)})
    ELSE Inserted(Tail(paths), present)

\* hist after an edit of the queue that inserted the paths ins
Edited(op, arg, ins) ==
    [events |-> hist.events \o ins, clock |-> hist.clock + 1,
     op |-> op, arg |-> arg]

\* hist after a step of convert_all or merge_pdfs_now
Ran(op) == [hist EXCEPT !.op = op, !.arg = <<>>]

\* the paths picked in the runs that follow the queue's history
QueueSmall == {F_doc_pdf, F_b_PDF, F_gone_pdf}

\* The handlers in any order, MaxEdits edits of the queue before, between and
\* after the runs, with the history of the queue recorded.
NextQueue ==
    \/ \E paths \in PathLists(QueueSmall) :
          /\ hist.clock < MaxEdits
          /\ AddPaths(paths)
          /\ hist' = Edited("add", paths, Inserted(paths, Range(files)))
    \/ \E sel \in SUBSET (1..Len(listbox)) :
          /\ hist.clock < MaxEdits
          /\ RemoveSelected(sel)
          /\ hist' = Edited("remove", <<>>, <<>>)
    \/ hist.clock < MaxEdits /\ ClearFiles /\ hist' = Edited("clear", <<>>, <<>>)
    \/ ConvertStart(DefaultOptions) /\ hist' = Ran("convert")
    \/ ConvertStep /\ hist' = Ran("convert")
    \/ ConvertFinish /\ hist' = Ran("convert")
    \/ MergePdfsNow(Out, S_pdf_juntado_pdf) /\ hist' = Ran("merge")

SpecQueue == Init /\ [][NextQueue]_vars

-----------------------------------------------------------------------------
(* Properties *)

Last(q) == q[Len(q)]

\* this step is an iteration of convert_all's loop, for the entry work[idx]
LoopStep == pc = "convert" /\ idx <= Len(work) /\ Len(log') = Len(log) + 1

\* convert_all has returned, normally or by an exception
ConvertReturned == outcome \in {"done", "aborted"}

\* the routing table as the specification states it, by output format and by
\* the class of the input extension
RoutingTable(ext, fmt) ==
    CASE fmt = S_txt /\ ext = DotPdf -> "text"
      [] fmt = S_pdf /\ ext = DotPdf -> "copy"
      [] fmt = S_pdf /\ ext \in IMAGE_EXTS -> "image_to_pdf"
      [] fmt = S_pdf /\ ext \in OFFICE_EXTS -> "office"
      [] fmt \in RasterFormats /\ ext = DotPdf -> "rasterizer"
      [] fmt \in RasterFormats /\ ext \in IMAGE_EXTS -> "image_codec"
      [] OTHER -> "none"

\* C1: a job of convert_all that reaches the dispatch (its input exists and its
\* destination folder is made) calls the adapter the routing table gives for
\* (input extension, output format) and no other; a pair without an adapter
\* calls none and is counted as a failure.
C1_Routing ==
    [][ (LoopStep /\ PathExists(fs, work[idx]) /\ Last(log').res # "abort")
        => LET a == RoutingTable(lower(PathSuffix(work[idx])), opts.fmt)
           IN /\ Last(log').adapter = a
              /\ a = "none" => /\ Last(log').res = "fail"
                               /\ fail_count' = fail_count + 1
                               /\ ok_count' = ok_count ]_vars

\* C1 witness: a run that called the image codec for its first entry and, for
\* its second, an office document asked for as an image, called no adapter.
C1_Witness ==
    /\ outcome = "done"
    /\ Len(log) = 2
    /\ log[1].adapter = "image_codec" /\ log[1].res = "ok"
    /\ log[2].path = F_doc_txt /\ log[2].adapter = "none" /\ log[2].res = "fail"

\* C2 (as claimed): whenever convert_all has returned, it has visited every
\* queue entry once, in queue order, and ok_count + fail_count is the number of
\* queue entries.
C2_NoFailFast ==
    ConvertReturned =>
        /\ [i \in 1..Len(log) |-> log[i].path] = work
        /\ ok_count + fail_count = Len(work)

\* C3 (as claimed): a job asking txt of an existing input that is not a PDF is
\* counted as a failure, calls no adapter and leaves the file system as it was.
C3_TxtCreatesNothing ==
    [][ (LoopStep /\ opts.fmt = S_txt /\ PathExists(fs, work[idx])
            /\ lower(PathSuffix(work[idx])) # DotPdf)
        => /\ fail_count' = fail_count + 1
           /\ Last(log').adapter = "none"
           /\ fs' = fs ]_vars

\* C4 (as claimed): every queue entry whose file existed when convert_all
\* started still exists when convert_all has returned.
C4_SourcesKept ==
    ConvertReturned => \A p \in existed : PathExists(fs, p)

\* the name of page i (below 10) of a rasterization, written out
DigitChar(i) == <<"0","1","2","3","4","5","6","7","8","9">>[i + 1]
ExpectedPage(dir, prefix, i, fmt) ==
    Append(dir, prefix \o <<"-","0","0",DigitChar(i)>> \o <<".">> \o fmt)

\* C5: a job that rasterizes an N-page PDF into a folder with nothing in it
\* leaves in that folder exactly the N files prefix-001.fmt .. prefix-00N.fmt,
\* and for a format other than png no .png file.
C5_RasterPages ==
    [][ (LoopStep /\ Last(log').adapter = "rasterizer" /\ Last(log').res = "ok"
            /\ Children(fs, DestDir(work[idx], opts)) = {})
        => LET dir == DestDir(work[idx], opts)
               n == Len(fs[work[idx]].pages)
               made == Children(fs', dir)
           IN /\ made = {ExpectedPage(dir, BaseName(work[idx]), i, opts.fmt) : i \in 1..n}
              /\ Cardinality(made) = n
              /\ \A p \in made : IsFile(fs', p)
              /\ opts.fmt # S_png => \A p \in made : PathSuffix(p) # <<".","p","n","g">> ]_vars

\* C5 witness: doc.pdf rasterized to jpg into the new folder out/doc, its last
\* page there.
C5_Witness ==
    /\ outcome = "done"
    /\ opts = [out_base |-> Out, fmt |-> S_jpg, subfolder |-> TRUE]
    /\ Len(log) >= 1 /\ log[1].path = F_doc_pdf /\ log[1].res = "ok"
    /\ IsFile(fs, ExpectedPage(Append(Out, <<"d","o","c">>), <<"d","o","c">>, NPages, S_jpg))

\* the pages of the queue entries with suffix .pdf (in any case) that exist,
\* in queue order
RECURSIVE PagesInQueueOrder(_, _)
PagesInQueueOrder(f, q) ==
    IF q = <<>> THEN <<>>
    ELSE (IF lower(PathSuffix(Head(q))) = DotPdf /\ Head(q) \in DOMAIN f
          THEN f[Head(q)].pages ELSE <<>>)
         \o PagesInQueueOrder(f, Tail(q))

ExistingPdfs(f, q) ==
    {i \in 1..Len(q) : lower(PathSuffix(q[i])) = DotPdf /\ q[i] \in DOMAIN f}

\* the files a step created or changed
Written == {p \in DOMAIN fs' : IsFile(fs', p) /\ (p \notin DOMAIN fs \/ fs'[p] # fs[p])}

\* this step is merge_pdfs_now
MergeStep == outcome' \in {"few", "merged", "merge_failed", "merge_aborted"}
                /\ runs' = runs + 1

\* C6: merge_pdfs_now writes a file only when at least two queue entries are
\* existing PDFs, and then one file holds the pages of exactly those entries in
\* queue order and no other file is touched; with fewer than two it changes
\* nothing.
C6_Merge ==
    [][ MergeStep
        => /\ Written # {} => Cardinality(ExistingPdfs(fs, files)) >= 2
           /\ outcome' = "merged" =>
                 \E p \in DOMAIN fs' :
                    /\ IsFile(fs', p)
                    /\ fs'[p].type = "pdf"
                    /\ fs'[p].pages = PagesInQueueOrder(fs, files)
                    /\ Written \subseteq {p}
           /\ outcome' # "merged" => Written = {}
           /\ Cardinality(ExistingPdfs(fs, files)) < 2 => fs' = fs /\ outcome' = "few" ]_vars

\* C6 witness: doc.pdf and b.PDF merged, b.PDF first, into out/pdf_juntado.pdf.
C6_Witness ==
    /\ outcome = "merged"
    /\ files = <<F_b_PDF, F_doc_pdf>>
    /\ IsFile(fs, Append(Out, S_pdf_juntado_pdf))
    /\ fs[Append(Out, S_pdf_juntado_pdf)].pages
          = <<<<F_b_PDF, 1>>>> \o [i \in 1..NPages |-> <<F_doc_pdf, i>>]

\* C8: a queue entry whose file does not exist adds one to fail_count, calls no
\* adapter, changes nothing in the file system, and the loop goes on to the
\* next entry.
C8_MissingInput ==
    [][ (LoopStep /\ ~PathExists(fs, work[idx]))
        => /\ fail_count' = fail_count + 1
           /\ ok_count' = ok_count
           /\ Last(log').adapter = "none"
           /\ fs' = fs
           /\ idx' = idx + 1
           /\ pc' = "convert" ]_vars

\* C8 witness: a run whose first entry was missing and whose second entry was
\* converted.
C8_Witness ==
    /\ outcome = "done"
    /\ Len(log) = 2
    /\ log[1].res = "missing" /\ log[2].res = "ok"
    /\ fail_count = 1 /\ ok_count = 1

\* this step is a job that called office_to_pdf and was counted as a success
OfficeOk == LoopStep /\ Last(log').adapter = "office" /\ Last(log').res = "ok"

\* C9 (as claimed): after a successful office job the PDF is at the canonical
\* path, and nothing remains under the name it was produced under when that
\* differs.
C9_Canonical ==
    [][ OfficeOk
        => LET canonical == OutPath(work[idx], opts, S_pdf)
               produced == Last(log').office.returned
           IN /\ IsFile(fs', canonical)
              /\ produced # canonical => ~PathExists(fs', produced) ]_vars

\* C9 (amended): after a successful office job the entry office_to_pdf returned
\* is at the canonical path and nothing remains under the produced name,
\* unless the canonical path is a folder, which cannot be removed: then the job
\* is a success all the same and the produced entry stays where it is.
C9_CanonicalIfPossible ==
    [][ OfficeOk
        => LET canonical == OutPath(work[idx], opts, S_pdf)
               produced == Last(log').office.returned
           IN IF IsDir(fs, canonical) /\ produced # canonical
              THEN /\ PathExists(fs', produced)
                   /\ IsDir(fs', canonical)
                   /\ ok_count' = ok_count + 1
              ELSE /\ PathExists(fs', canonical)
                   /\ produced # canonical => ~PathExists(fs', produced) ]_vars

\* C9 witness: " r.docx" converted into folder out; the process left " r.pdf",
\* which is now r.pdf.
C9_Witness ==
    /\ outcome = "done"
    /\ opts = [out_base |-> Out, fmt |-> S_pdf, subfolder |-> FALSE]
    /\ Len(log) >= 1 /\ log[1].path = F_r_docx /\ log[1].res = "ok"
    /\ log[1].office.returned = Append(Out, <<" ","r",".","p","d","f">>)
    /\ IsFile(fs, Append(Out, <<"r",".","p","d","f">>))
    /\ ~PathExists(fs, Append(Out, <<" ","r",".","p","d","f">>))

\* C10 (as claimed): whenever office_to_pdf returned a path, its process had
\* exited with status zero and that run had produced the PDF.
C10_ReturnsOwnOutput ==
    \A i \in 1..Len(log) :
        (log[i].office.called /\ log[i].office.returned # NoPath)
            => log[i].office.exit0 /\ log[i].office.wrote

\* the positions of path p in the list of insertions
EventsOf(p) == {k \in 1..Len(hist.events) : hist.events[k] = p}

\* the queue holds no path twice, no empty path, and only paths once inserted
QueueWellFormed ==
    /\ \A i, j \in 1..Len(files) : files[i] = files[j] => i = j
    /\ \A i \in 1..Len(files) : files[i] # <<>> /\ EventsOf(files[i]) # {}

\* C7 (as claimed): the queue holds its paths in the order in which each was
\* inserted for the first time.
C7_FirstInsertionOrder ==
    QueueWellFormed
    /\ \A i, j \in 1..Len(files) :
          i < j => SetMin(EventsOf(files[i])) < SetMin(EventsOf(files[j]))

\* the queue holds its paths in the order in which each was last inserted
LatestInsertionOrder ==
    \A i, j \in 1..Len(files) :
        i < j => SetMax(EventsOf(files[i])) < SetMax(EventsOf(files[j]))

\* C7 (amended): after every handler the queue holds no path twice and no empty
\* path, in the order of the insertion that put each path where it is (its
\* latest one: a path removed and added again goes to the end); an add of
\* paths that are all in the queue leaves it unchanged, and so do the steps of
\* convert_all and merge_pdfs_now.
C7_Queue ==
    [][ /\ QueueWellFormed'
        /\ LatestInsertionOrder'
        /\ (hist'.op = "add"
              /\ \A k \in 1..Len(hist'.arg) : hist'.arg[k] \in Range(files))
           => files' = files
        /\ hist'.op \in {"convert", "merge"} => files' = files ]_vars

\* C7 witness: doc.pdf and b.PDF were added, doc.pdf removed and added again,
\* and convert_all has run over the queue b.PDF, doc.pdf without changing it.
C7_Witness ==
    /\ hist.events = <<F_doc_pdf, F_b_PDF, F_doc_pdf>>
    /\ files = <<F_b_PDF, F_doc_pdf>>
    /\ outcome = "done"
    /\ work = files

\* C11: after every add, remove-selected and clear the rows of the list widget
\* and the queue App.files are the same sequence of paths: the same length and
\* the same path at every index.
C11_ListboxIsFiles ==
    /\ Len(listbox) = Len(files)
    /\ \A i \in 1..Len(files) : listbox[i] = files[i]

\* C11 witness: doc.pdf and b.PDF were added and the first row was removed;
\* the list and the queue both hold b.PDF alone.
C11_Witness ==
    /\ hist.op = "remove"
    /\ hist.events = <<F_doc_pdf, F_b_PDF>>
    /\ files = <<F_b_PDF>>
    /\ listbox = <<F_b_PDF>>

====
